---------------------------- MODULE Spec2Model ----------------------------
(* A model of chimera: the component registry and injection middleware of *)
(* dependency_injection.py, the custom validation checks and adapters of  *)
(* validator.py, and the sort-fragment builder of mongo_helpers.py.       *)
(*                                                                        *)
(* Python dicts are total functions whose absent keys map to Missing.     *)
EXTENDS Integers, Sequences, FiniteSets, TLC

VARIABLES
    components,      \* Dependencies.__components
    bulk,            \* position of the running register_module / register_package
    inflight,        \* initializer coroutines that were called and have not completed
    last,            \* what the last operation was given and what it returned or raised
    lastRegistered,  \* history: the object most recently registered under each name
    schema,          \* the schema dict a validation adapter was declared with
    legacyAttr,      \* whether the app object carries a `dependencies` attribute
    now              \* int(time()): the clock, in whole seconds

vars == <<components, bulk, inflight, last, lastRegistered, schema, legacyAttr, now>>

-----------------------------------------------------------------------------
(* Values *)

Missing == "<missing>"
None == "<none>"

\* Names components are registered under.
Names == {"db", "document_exists"}

\* Registered objects: a plain object, a checker function, a checker coroutine function.
Instances == {"obj", "checker", "async_checker"}

\* The ambient handles of a Dependencies object (self.app, self.loop).
App == "<app>"
Loop == "<loop>"
Ambient == [app |-> App, loop |-> Loop]

\* Parameter names an initializer can declare.
AmbientNames == {"app", "loop"}

\* Declarations a scanned module can hold per register_module call.
MaxDecls == 2

EmptyKw == [p \in AmbientNames |-> Missing]

\* d[k] = v
SetItem(d, k, v) == [d EXCEPT ![k] = v]

\* the keys of a dict
Keys(d) == {k \in DOMAIN d : d[k] # Missing}

-----------------------------------------------------------------------------
(* Dependencies: the registry *)

\* A Register declaration: its name and its function: the parameters it declares,
\* those of them that have a default, whether it is a coroutine function, and
\* whether it raises or what it returns.
Declarations ==
    {d \in [name : Names, parameters : SUBSET AmbientNames,
            defaults : SUBSET AmbientNames, coroutine : BOOLEAN,
            raises : BOOLEAN, returns : Instances] :
        d.defaults \subseteq d.parameters}

\* Declarations of functions without parameters that hand out the same object.
PlainDeclarations == {d \in Declarations : d.parameters = {} /\ d.returns = "obj"}

\* The register_module / register_package calls that can be running at a time.
CallIds == {"c1", "c2"}

\* A registry that keeps the first object registered under a name.
StoreComponentOnce(comps, name, object) ==
    IF comps[name] # Missing THEN comps ELSE SetItem(comps, name, object)

\* self.__components[name] = object
StoreComponent(comps, name, object) == SetItem(comps, name, object)

\* name in self.__components
exists(comps, name) == name \in DOMAIN comps /\ comps[name] # Missing

\* A lookup in the manner of dict.get: None for an absent name.
get_component_or_none(comps, name) ==
    [ok |-> TRUE, value |-> IF exists(comps, name) THEN comps[name] ELSE None,
     error |-> None]

\* return self.__components[name]
get_component(comps, name) ==
    IF exists(comps, name)
    THEN [ok |-> TRUE, value |-> comps[name], error |-> None]
    ELSE [ok |-> FALSE, value |-> None, error |-> "KeyError"]

\* The keyword arguments _register builds for an initializer.
BuildKw(parameters) ==
    LET kw0 == EmptyKw
        kw1 == IF "app" \in parameters THEN SetItem(kw0, "app", App) ELSE kw0
        kw2 == IF "loop" \in parameters THEN SetItem(kw1, "app", Loop) ELSE kw1
    IN kw2

\* instance.function(**kw): Python binds the keywords to declared parameters, and
\* every parameter without a default must be given.
CallBinds(parameters, defaults, kw) ==
    /\ Keys(kw) \subseteq parameters
    /\ (parameters \ defaults) \subseteq Keys(kw)

\* register(name, object)
register(name, object) ==
    /\ components' = StoreComponent(components, name, object)
    /\ lastRegistered' = [lastRegistered EXCEPT ![name] = object]
    /\ last' = [op |-> "register", name |-> name, object |-> object,
                previous |-> components[name]]
    /\ UNCHANGED <<bulk, inflight, schema, legacyAttr, now>>

\* get_component(name), as a caller observes it
GetComponent(name) ==
    /\ last' = [op |-> "get_component", name |-> name,
                outcome |-> get_component(components, name)]
    /\ UNCHANGED <<components, bulk, inflight, lastRegistered, schema, legacyAttr, now>>

\* exists(name), as a caller observes it
Exists(name) ==
    /\ last' = [op |-> "exists", name |-> name, outcome |-> exists(components, name)]
    /\ UNCHANGED <<components, bulk, inflight, lastRegistered, schema, legacyAttr, now>>

(* register_module / register_package: the loop over the scanned declarations. *)
(* A call meets the declarations one by one, in the order dir(module) lists    *)
(* them; bulk[c].idx counts the ones call c has met, bulk[c].written lists the *)
(* ones whose result it has stored, bulk[c].fresh the names it has added to    *)
(* the registry.  Nothing keeps a call from starting while another is          *)
(* suspended in an awaited initializer.                                        *)

NoCall == [status |-> "idle", kind |-> None, idx |-> 0, written |-> <<>>, fresh |-> {},
           failedAt |-> 0, cause |-> None]

\* The initializer coroutines call c has called and is awaiting.
Pending(c) == {t \in inflight : t.call = c}

\* A loop that goes on without awaiting the call it made.
NotAwaited(c) == TRUE

\* await self._register(instance): the loop goes on once the awaited call is over.
Awaited(c) == Pending(c) = {}

\* The loop of call c raised out of declaration number i.
Aborted(b, i, cause) == [b EXCEPT !.status = "aborted", !.failedAt = i, !.cause = cause]

\* self.__components[instance.name] = <result> for declaration number i
Wrote(b, i, name) ==
    [b EXCEPT !.written = Append(@, i),
              !.fresh = IF exists(components, name) THEN @ ELSE @ \cup {name}]

\* register_module(module) is called.
register_module(c) ==
    /\ bulk[c].status # "running"
    /\ bulk' = [bulk EXCEPT ![c] = [NoCall EXCEPT !.status = "running", !.kind = "module"]]
    /\ last' = [op |-> "register_module", call |-> c]
    /\ UNCHANGED <<components, inflight, lastRegistered, schema, legacyAttr, now>>

\* register_package(package) is called.
register_package(c) ==
    /\ bulk[c].status # "running"
    /\ bulk' = [bulk EXCEPT ![c] = [NoCall EXCEPT !.status = "running", !.kind = "package"]]
    /\ last' = [op |-> "register_package", call |-> c]
    /\ UNCHANGED <<components, inflight, lastRegistered, schema, legacyAttr, now>>

\* register_package: importer.find_module(module_name).load_module(module_name)
\* raises, between the declarations of two modules.
LoadModuleFails(c) ==
    /\ bulk[c].status = "running" /\ bulk[c].kind = "package" /\ Awaited(c)
    /\ bulk' = [bulk EXCEPT ![c] = Aborted(@, 0, "import")]
    /\ last' = [op |-> "load_module", call |-> c, raised |-> "ImportError"]
    /\ UNCHANGED <<components, inflight, lastRegistered, schema, legacyAttr, now>>

\* One turn of the loop of call c: await self._register(instance) for the next
\* declaration d.  A call that does not bind raises TypeError before the
\* initializer runs; a coroutine function is called and awaited; a plain function
\* runs to its end.
_register(c, d) ==
    LET i == bulk[c].idx + 1
        kw == BuildKw(d.parameters)
        met == [bulk[c] EXCEPT !.idx = i]
    IN
    /\ bulk[c].status = "running" /\ Awaited(c) /\ bulk[c].idx < MaxDecls
    /\ IF ~CallBinds(d.parameters, d.defaults, kw)
       THEN /\ bulk' = [bulk EXCEPT ![c] = Aborted(met, i, "call")]
            /\ last' = [op |-> "_register", call |-> c, decl |-> d, kw |-> kw,
                        raised |-> "TypeError"]
            /\ UNCHANGED <<components, inflight, lastRegistered, schema, legacyAttr, now>>
       ELSE IF d.coroutine
       THEN /\ bulk' = [bulk EXCEPT ![c] = met]
            /\ inflight' = inflight \cup {[call |-> c, idx |-> i, name |-> d.name,
                                           raises |-> d.raises, returns |-> d.returns]}
            /\ last' = [op |-> "_register", call |-> c, decl |-> d, kw |-> kw,
                        raised |-> None]
            /\ UNCHANGED <<components, lastRegistered, schema, legacyAttr, now>>
       ELSE IF d.raises
       THEN /\ bulk' = [bulk EXCEPT ![c] = Aborted(met, i, "initializer")]
            /\ last' = [op |-> "_register", call |-> c, decl |-> d, kw |-> kw,
                        raised |-> "Exception"]
            /\ UNCHANGED <<components, inflight, lastRegistered, schema, legacyAttr, now>>
       ELSE /\ bulk' = [bulk EXCEPT ![c] = Wrote(met, i, d.name)]
            /\ components' = StoreComponent(components, d.name, d.returns)
            /\ lastRegistered' = [lastRegistered EXCEPT ![d.name] = d.returns]
            /\ last' = [op |-> "_register", call |-> c, decl |-> d, kw |-> kw,
                        raised |-> None]
            /\ UNCHANGED <<inflight, schema, legacyAttr, now>>

\* The awaited initializer coroutine t finishes: it raises, or its result is stored.
Resume(t) ==
    /\ t \in inflight
    /\ inflight' = inflight \ {t}
    /\ IF t.raises
       THEN /\ bulk' = [bulk EXCEPT ![t.call] = Aborted(@, t.idx, "initializer")]
            /\ last' = [op |-> "resume", call |-> t.call, raised |-> "Exception"]
            /\ UNCHANGED <<components, lastRegistered>>
       ELSE /\ bulk' = [bulk EXCEPT ![t.call] = Wrote(@, t.idx, t.name)]
            /\ components' = StoreComponent(components, t.name, t.returns)
            /\ lastRegistered' = [lastRegistered EXCEPT ![t.name] = t.returns]
            /\ last' = [op |-> "resume", call |-> t.call, raised |-> None]
    /\ UNCHANGED <<schema, legacyAttr, now>>

\* The loop of call c has no further declaration: the call returns.
Return(c) ==
    /\ bulk[c].status = "running" /\ Awaited(c)
    /\ bulk' = [bulk EXCEPT ![c].status = "done"]
    /\ last' = [op |-> "return", call |-> c]
    /\ UNCHANGED <<components, inflight, lastRegistered, schema, legacyAttr, now>>

-----------------------------------------------------------------------------
(* inject: the injection middleware *)

\* Parameter names of a wrapped handler, besides request.
ParamNames == Names \cup {"id"}

\* A value the caller of the wrapper passes as a keyword argument.
Explicit == "explicit"

\* The kwargs the wrapper gives the handler, from the kwargs it was given.
InjectKwargs(comps, parameters, kwargs) ==
    [p \in ParamNames |->
        IF p \in parameters /\ exists(comps, p)
        THEN get_component(comps, p).value
        ELSE kwargs[p]]

\* wrapper(request, **kwargs) around a handler declaring `parameters`
inject(parameters, kwargs) ==
    /\ last' = [op |-> "inject", parameters |-> parameters, given |-> kwargs,
                passed |-> InjectKwargs(components, parameters, kwargs)]
    /\ UNCHANGED <<components, bulk, inflight, lastRegistered, schema, legacyAttr, now>>

-----------------------------------------------------------------------------

(* validator.py: the custom checks and the adapters *)

\* Fields of a validated document, and the values they take.
Fields == {"id", "kind"}
IdValues == {"u1", "u2"}
KindValues == {"profiles", "pages", "likes"}

\* The documents a request can carry: a value or nothing for each field.
Documents ==
    {doc \in [Fields -> IdValues \cup KindValues \cup {Missing}] :
        /\ doc["id"] \in IdValues \cup {Missing}
        /\ doc["kind"] \in KindValues \cup {Missing}}

\* The orders in which a document lists its fields.
FieldOrders == {<<"id", "kind">>, <<"kind", "id">>}

\* The orders in which the document doc can list the fields it carries.
Orders(doc) ==
    IF \A f \in Fields : doc[f] # Missing THEN FieldOrders ELSE {<<"id", "kind">>}

\* The characters of the str values.
Characters ==
    [u1 |-> <<"u", "1">>, u2 |-> <<"u", "2">>,
     profiles |-> <<"p", "r", "o", "f", "i", "l", "e", "s">>,
     pages |-> <<"p", "a", "g", "e", "s">>, likes |-> <<"l", "i", "k", "e", "s">>]

\* The 'map' of a check_existence rule: alias -> collection metadata.
CollectionMap ==
    [profiles |-> [name |-> "profiles", not_found |-> "User not found"],
     pages |-> [name |-> "pages", not_found |-> "Page not found"]]

\* The documents the store holds: what a document_exists checker answers from.
Stored == {<<"profiles", "u1">>, <<"pages", "u2">>}

\* Rules of a schema: the rule and its argument.  check_existence is given the
\* dict of its docstring ('name', 'lookup', and the 'map' above) or a str;
\* allowed_path is given a str or a list.
CheckExistence(name, lookup) ==
    [rule |-> "check_existence", isStr |-> FALSE, name |-> name, lookup |-> lookup]
CheckExistenceStr(s) ==
    [rule |-> "check_existence", isStr |-> TRUE, name |-> s, lookup |-> FALSE]
AllowedPathStr(s) == [rule |-> "allowed_path", isStr |-> TRUE, items |-> <<s>>]
AllowedPathList(l) == [rule |-> "allowed_path", isStr |-> FALSE, items |-> l]

\* The schemas handlers are declared with: the fields they define, and each
\* field's rules in declared order.
IdRules ==
    {<<>>, <<CheckExistence("profiles", FALSE)>>, <<CheckExistence("kind", TRUE)>>,
     <<CheckExistenceStr("profiles")>>}
KindRules ==
    {<<>>, <<AllowedPathStr("profiles")>>, <<AllowedPathList(<<"profiles", "pages">>)>>}

\* A schema: the fields it defines, each field's validation rules and its
\* 'coerce' rule, and the 'default_setter' rule of the field 'ts', which no
\* request carries.
NoSchema ==
    [defined |-> {}, rules |-> [f \in Fields |-> <<>>],
     coerce |-> [f \in Fields |-> None], setter |-> None]

\* Schemas of validation rules.
RuleSchemas ==
    {[NoSchema EXCEPT
        !.defined = {f \in Fields : (f = "id" /\ ir # <<>>)
                                       \/ (f = "kind" /\ (kr # <<>> \/ plain))},
        !.rules = [f \in Fields |-> IF f = "id" THEN ir ELSE kr]] :
        ir \in IdRules, kr \in KindRules, plain \in BOOLEAN}

\* Schemas of normalization rules: {'coerce': 'first'} on 'id', and
\* {'default_setter': 'timestamp'} or {'default_setter': 'array_wrap'} on 'ts'.
NormalizeSchemas ==
    {[NoSchema EXCEPT !.defined = Fields, !.coerce["id"] = c, !.setter = d] :
        c \in {None, "first"}, d \in {None, "timestamp", "array_wrap"}}

Schemas == RuleSchemas \cup NormalizeSchemas

\* A request of the service, or no request.
Request == [present |-> TRUE, path |-> "/things/likes"]
NoRequest == [present |-> FALSE, path |-> None]

\* CustomValidator(schema=schema): the schema is validated when the validator is
\* built, each rule's argument against the schema its method's docstring
\* declares, which is {'type': 'string'} for check_existence and allowed_path.
SchemaValid(sch) ==
    \A f \in Fields : \A k \in 1..Len(sch.rules[f]) : sch.rules[f][k].isStr

NoErrors == [f \in Fields |-> <<>>]
NotRaised == [type |-> None, detail |-> None]
Raise(type, detail) == [type |-> type, detail |-> detail]

\* Validator._lookup_field(path)[1] on the document under validation.
LookupField(path, doc) ==
    IF path = None THEN [raised |-> "AttributeError", value |-> None]
    ELSE IF path \in DOMAIN doc /\ doc[path] # Missing
    THEN [raised |-> None, value |-> doc[path]]
    ELSE [raised |-> None, value |-> None]

\* What a document_exists checker answers, once its answer is there.
DocumentExists(collection, value) == <<collection, value>> \in Stored

\* Calling a registered object as (collection name, value): a function answers,
\* a coroutine function hands back a coroutine object, any other object raises.
CallChecker(object, collection, value) ==
    IF object = "checker"
    THEN [raised |-> None, truthy |-> DocumentExists(collection, value)]
    ELSE IF object = "async_checker"
    THEN [raised |-> None, truthy |-> TRUE]
    ELSE [raised |-> "TypeError", truthy |-> FALSE]

\* self.request.app.dependencies.get_component('document_exists'): the attribute
\* read is app.dependencies, not the app.ctx.dependencies that Dependencies sets;
\* `legacy` tells whether the app object has it, and it is then the registry.
RequestComponent(request, legacy, comps) ==
    IF ~request.present THEN [ok |-> FALSE, value |-> None, error |-> "AttributeError"]
    ELSE IF ~legacy THEN [ok |-> FALSE, value |-> None, error |-> "AttributeError"]
    ELSE get_component(comps, "document_exists")

\* _validate_check_existence(check_existence, field, value), the rule being the
\* k-th of the field: st is the validator (its schema, its errors).  On a str
\* argument 'lookup' is not a part of it and check_existence['map'] raises.
_validate_check_existence(st, field, k, value, doc, request, legacy, comps) ==
    LET check_existence == st.schema.rules[field][k]
        looked == LookupField(check_existence.name, doc)
        name == IF check_existence.lookup THEN looked.value ELSE check_existence.name
        st1 == IF check_existence.lookup /\ looked.raised = None
               THEN [st EXCEPT !.schema.rules[field][k].name = name]
               ELSE st
        component == RequestComponent(request, legacy, comps)
    IN
    IF check_existence.isStr
    THEN [st EXCEPT !.raised = Raise("TypeError", None)]
    ELSE IF check_existence.lookup /\ looked.raised # None
    THEN [st EXCEPT !.raised = Raise(looked.raised, None)]
    ELSE IF name \notin DOMAIN CollectionMap
    THEN [st1 EXCEPT !.raised = Raise("KeyError", None)]
    ELSE IF ~component.ok
    THEN [st1 EXCEPT !.raised = Raise(component.error, None)]
    ELSE LET collection_metadata == CollectionMap[name]
             answer == CallChecker(component.value, collection_metadata.name, value)
         IN IF answer.raised # None
            THEN [st1 EXCEPT !.raised = Raise(answer.raised, None)]
            ELSE IF ~answer.truthy
            THEN [st1 EXCEPT !.errors[field] = Append(@, collection_metadata.not_found)]
            ELSE st1

\* x in seq
Contains(seq, x) == \E n \in 1..Len(seq) : seq[n] = x

\* _validate_allowed_path(allowed_path, field, value)
_validate_allowed_path(st, field, k, value, request) ==
    LET rule == st.schema.rules[field][k]
        allowed_path == IF rule.isStr THEN <<rule.items[1]>> ELSE rule.items
    IN
    IF ~Contains(allowed_path, value)
    THEN IF request.present
         THEN [st EXCEPT !.raised = Raise("NotFound", request.path)]
         ELSE [st EXCEPT !.raised = Raise("NotFound", None)]
    ELSE st

\* The rules of one field, in declared order, from the k-th on.
RECURSIVE ValidateDefinitions(_, _, _, _, _, _, _)
ValidateDefinitions(st, field, k, doc, request, legacy, comps) ==
    IF st.raised.type # None \/ k > Len(st.schema.rules[field]) THEN st
    ELSE LET rule == st.schema.rules[field][k]
             ran == [st EXCEPT !.ran = @ \cup {<<field, rule.rule>>}]
             next == IF rule.rule = "check_existence"
                     THEN _validate_check_existence(ran, field, k, doc[field], doc,
                                                    request, legacy, comps)
                     ELSE _validate_allowed_path(ran, field, k, doc[field], request)
         IN ValidateDefinitions(next, field, k + 1, doc, request, legacy, comps)

\* validator.validate(document): the fields in document order, from the n-th on.
RECURSIVE ValidateFields(_, _, _, _, _, _, _)
ValidateFields(st, order, n, doc, request, legacy, comps) ==
    IF st.raised.type # None \/ n > Len(order) THEN st
    ELSE LET field == order[n]
             next == IF doc[field] # Missing /\ field \in st.schema.defined
                     THEN ValidateDefinitions(st, field, 1, doc, request, legacy, comps)
                     ELSE st
         IN ValidateFields(next, order, n + 1, doc, request, legacy, comps)

\* _normalize_coerce_first(value)
_normalize_coerce_first(value) == Characters[value][1]

\* _normalize_default_setter_array_wrap(document): the list holds the document.
_normalize_default_setter_array_wrap(document) == <<document>>

\* _normalize_default_setter_timestamp(document), at clock time t
_normalize_default_setter_timestamp(document, t) == <<ToString(t)>>

\* Normalization of the fields a request carries: purge_unknown=True drops the
\* fields the schema does not define, and a defined field's coerce rule is
\* applied to its value.
Normalize(sch, doc, purge_unknown) ==
    LET purged == [f \in Fields |->
                     IF purge_unknown /\ f \notin sch.defined THEN Missing ELSE doc[f]]
    IN [f \in Fields |->
          IF purged[f] # Missing /\ f \in sch.defined /\ sch.coerce[f] = "first"
          THEN _normalize_coerce_first(purged[f])
          ELSE purged[f]]

\* Normalization of the field 'ts', absent from the request: the value its
\* default setter gives it in the validated document (<<>> without a setter).
DefaultField(sch, document, t) ==
    IF sch.setter = "timestamp" THEN _normalize_default_setter_timestamp(document, t)
    ELSE IF sch.setter = "array_wrap" THEN _normalize_default_setter_array_wrap(document)
    ELSE <<>>

\* CustomValidator(request=request, schema=schema, ...).validate(document): a
\* schema that is not valid raises SchemaError out of the constructor.
validate(sch, doc, order, purge_unknown, request, legacy, comps) ==
    LET st == [schema |-> sch, errors |-> NoErrors, raised |-> NotRaised, ran |-> {}]
    IN IF ~SchemaValid(sch)
       THEN [st EXCEPT !.raised = Raise("SchemaError", None)]
       ELSE ValidateFields(st, order, 1, Normalize(sch, doc, purge_unknown),
                           request, legacy, comps)

\* What a wrapper does with the validator's verdict: the raised exception goes
\* through, errors become InvalidUsage, and else the handler is called on the
\* validated document (the fields of the request, and the field 'ts').
Outcome(st, doc, ts) ==
    IF st.raised.type # None
    THEN [kind |-> st.raised.type, detail |-> st.raised.detail, errors |-> NoErrors,
          handler |-> FALSE, document |-> [f \in Fields |-> Missing], ts |-> <<>>]
    ELSE IF st.errors # NoErrors
    THEN [kind |-> "InvalidUsage", detail |-> None, errors |-> st.errors,
          handler |-> FALSE, document |-> [f \in Fields |-> Missing], ts |-> <<>>]
    ELSE [kind |-> "handled", detail |-> None, errors |-> NoErrors,
          handler |-> TRUE, document |-> doc, ts |-> ts]

\* What a wrapper leaves behind: the schema as the validator left it, and the
\* call with its verdict; `passed` is where the handler finds the document.
Served(call, st, doc, passed) ==
    /\ schema' = st.schema
    /\ last' = [op |-> "validate", adapter |-> call.adapter, request |-> call.request,
                data |-> call.data, order |-> call.order, declares |-> call.declares,
                ran |-> st.ran, errors |-> st.errors,
                outcome |-> Outcome(st, doc, DefaultField(schema, doc, now)),
                passed |-> IF st.raised.type = None /\ st.errors = NoErrors
                           THEN passed ELSE None]
    /\ UNCHANGED <<components, bulk, inflight, lastRegistered, legacyAttr, now>>

\* ValidatePath(schema)(function)(request, **kwargs)
ValidatePath(request, kwargs, order) ==
    LET st == validate(schema, kwargs, order, FALSE, request, legacyAttr, components)
    IN Served([adapter |-> "ValidatePath", request |-> request, data |-> kwargs,
               order |-> order, declares |-> TRUE],
              st, Normalize(schema, kwargs, FALSE), "kwargs")

\* The documents a request's property can hold; without a request the wrapper
\* reads an empty one.
EmptyDocument == [f \in Fields |-> Missing]
Properties(request) == IF request.present THEN Documents ELSE {EmptyDocument}

\* ValidateRequest(schema, request_property)(function)(request): the handler
\* finds the validated document in kwargs['validated'][request_property].
ValidateRequest(request, document, order) ==
    LET st == validate(schema, document, order, TRUE, request, legacyAttr, components)
    IN Served([adapter |-> "ValidateRequest", request |-> request, data |-> document,
               order |-> order, declares |-> TRUE],
              st, Normalize(schema, document, TRUE), "validated")

\* Validate(schema, request_property)(function)(request): the handler is given
\* the validated document as kwargs[request_property] if it declares a parameter
\* of that name, and is not given it otherwise.
Validate(request, document, order, declares) ==
    LET st == validate(schema, document, order, TRUE, request, legacyAttr, components)
    IN Served([adapter |-> "Validate", request |-> request, data |-> document,
               order |-> order, declares |-> declares],
              st, Normalize(schema, document, TRUE),
              IF declares THEN "property" ELSE "nothing")

\* A second passes.
MaxTime == 2
Tick ==
    /\ now < MaxTime
    /\ now' = now + 1
    /\ UNCHANGED <<components, bulk, inflight, last, lastRegistered, schema, legacyAttr>>

-----------------------------------------------------------------------------

(* mongo_helpers.py: create_sort_query *)
(* A str is the sequence of its characters. *)

UpperLetters == <<"A", "E", "G", "M", "N">>
LowerLetters == <<"a", "e", "g", "m", "n">>

IsUpperChar(c) == \E n \in 1..Len(UpperLetters) : UpperLetters[n] = c
IsLowerChar(c) == \E n \in 1..Len(LowerLetters) : LowerLetters[n] = c

\* str.lower() on one character: digits and lower-case letters stay.
LowerChar(c) ==
    IF IsUpperChar(c)
    THEN LowerLetters[CHOOSE n \in 1..Len(UpperLetters) : UpperLetters[n] = c]
    ELSE c

\* str.lower()
Lower(str) == [n \in 1..Len(str) |-> LowerChar(str[n])]

\* str.isupper(): no lower-case letter and at least one upper-case letter.
IsUpper(str) ==
    /\ \A n \in 1..Len(str) : ~IsLowerChar(str[n])
    /\ \E n \in 1..Len(str) : IsUpperChar(str[n])

\* d[k] = v on a dict kept as a function over its keys
DictSet(d, k, v) == [x \in DOMAIN d \cup {k} |-> IF x = k THEN v ELSE d[x]]

\* The loop of create_sort_query from the n-th field on: the fields kept so far
\* (results) and the lower-cased names seen so far (marker).
RECURSIVE KeepFirst(_, _, _, _)
KeepFirst(fields, n, results, marker) ==
    IF n > Len(fields) THEN results
    ELSE LET lowercased_value == Lower(fields[n])
         IN IF lowercased_value \notin marker
            THEN KeepFirst(fields, n + 1, Append(results, fields[n]),
                           marker \cup {lowercased_value})
            ELSE KeepFirst(fields, n + 1, results, marker)

\* { field.lower(): 1 if field.isupper() else -1 for field in results }
RECURSIVE SortDict(_, _, _)
SortDict(results, n, d) ==
    IF n > Len(results) THEN d
    ELSE SortDict(results, n + 1,
                  DictSet(d, Lower(results[n]), IF IsUpper(results[n]) THEN 1 ELSE -1))

\* The same comprehension over every field: the marker forgotten.
create_sort_query_unmarked(fields) == SortDict(fields, 1, <<>>)

create_sort_query(fields) == SortDict(KeepFirst(fields, 1, <<>>, {}), 1, <<>>)

\* Longest field name, and most field names, of the enumerated inputs.
MaxLen == 2
MaxFields == 2

Alphabet == {"a", "A", "1"}
Strings == UNION {[1..n -> Alphabet] : n \in 0..MaxLen}
FieldLists == UNION {[1..n -> Strings] : n \in 0..MaxFields}

\* ["Name", "age", "NAME"]
Example == << <<"N", "a", "m", "e">>, <<"a", "g", "e">>, <<"N", "A", "M", "E">> >>

\* A caller holding a list of field names calls create_sort_query on it.
CreateSortQuery ==
    /\ last.op = "fields"
    /\ last' = [op |-> "create_sort_query", fields |-> last.fields,
                output |-> create_sort_query(last.fields)]
    /\ UNCHANGED <<components, bulk, inflight, lastRegistered, schema, legacyAttr, now>>

-----------------------------------------------------------------------------
(* The specifications *)

\* After Dependencies(app, loop), with a handler declared under some schema.
Init ==
    /\ components = [n \in Names |-> Missing]
    /\ bulk = [c \in CallIds |-> NoCall]
    /\ inflight = {}
    /\ last = [op |-> "init"]
    /\ lastRegistered = [n \in Names |-> Missing]
    /\ schema = NoSchema
    /\ legacyAttr = FALSE
    /\ now = 0

\* The registry and one startup call after another, on every kind of declaration.
Next ==
    \/ \E n \in Names, o \in Instances : register(n, o)
    \/ \E n \in Names : GetComponent(n)
    \/ \E n \in Names : Exists(n)
    \/ register_module("c1")
    \/ register_package("c1")
    \/ LoadModuleFails("c1")
    \/ \E d \in Declarations : _register("c1", d)
    \/ \E t \in inflight : Resume(t)
    \/ Return("c1")

Spec == Init /\ [][Next]_vars

\* Startup calls that can run at the same time, on declarations without parameters.
NextStartup ==
    \/ \E c \in CallIds : register_module(c)
    \/ \E c \in CallIds : register_package(c)
    \/ \E c \in CallIds : LoadModuleFails(c)
    \/ \E c \in CallIds, d \in PlainDeclarations : _register(c, d)
    \/ \E t \in inflight : Resume(t)
    \/ \E c \in CallIds : Return(c)

SpecStartup == Init /\ [][NextStartup]_vars

\* The registry and the handlers wrapped by inject.
NextInject ==
    \/ \E n \in Names, o \in Instances : register(n, o)
    \/ \E ps \in SUBSET ParamNames :
         \E kw \in [ParamNames -> {Missing, Explicit}] :
            /\ Keys(kw) \subseteq ps
            /\ inject(ps, kw)

SpecInject == Init /\ [][NextInject]_vars

\* After Dependencies(app, loop) on an app object that may carry a `dependencies`
\* attribute of its own, with a handler declared under one of the schemas.
InitValidate ==
    /\ components = [n \in Names |-> Missing]
    /\ bulk = [c \in CallIds |-> NoCall]
    /\ inflight = {}
    /\ last = [op |-> "init"]
    /\ lastRegistered = [n \in Names |-> Missing]
    /\ schema \in Schemas
    /\ legacyAttr \in BOOLEAN
    /\ now = 0

\* The checker's registration and the handlers wrapped by the validation adapters.
NextValidate ==
    \/ \E o \in Instances : register("document_exists", o)
    \/ \E r \in {Request, NoRequest}, kwargs \in Documents :
         \E order \in Orders(kwargs) : ValidatePath(r, kwargs, order)
    \/ \E r \in {Request, NoRequest} : \E document \in Properties(r) :
         \E order \in Orders(document) : ValidateRequest(r, document, order)
    \/ \E r \in {Request, NoRequest}, declares \in BOOLEAN :
         \E document \in Properties(r) :
            \E order \in Orders(document) : Validate(r, document, order, declares)
    \/ Tick

SpecValidate == InitValidate /\ [][NextValidate]_vars

\* A caller about to build a sort fragment from one of the enumerated inputs.
InitSort ==
    /\ components = [n \in Names |-> Missing]
    /\ bulk = [c \in CallIds |-> NoCall]
    /\ inflight = {}
    /\ last \in {[op |-> "fields", fields |-> fields] : fields \in FieldLists \cup {Example}}
    /\ lastRegistered = [n \in Names |-> Missing]
    /\ schema = NoSchema
    /\ legacyAttr = FALSE
    /\ now = 0

NextSort == CreateSortQuery

SpecSort == InitSort /\ [][NextSort]_vars

-----------------------------------------------------------------------------
(* The properties *)

\* C1: _register calls the initializer with exactly the ambient parameters it
\* declares, each bound to its own name (app to the service context, loop to the
\* event loop, nothing else), and the result of an initializer that ran to its
\* end is stored under the declaration's name.
C1_InitializerGetsDeclaredAmbients ==
    last.op = "_register" =>
        /\ last.kw = [p \in AmbientNames |->
                        IF p \in last.decl.parameters THEN Ambient[p] ELSE Missing]
        /\ last.raised # "TypeError"
        /\ (~last.decl.coroutine /\ ~last.decl.raises =>
                components[last.decl.name] = last.decl.returns)

\* C2: the wrapper made by inject supplies the registry's component for a declared
\* parameter found in the registry only when the caller gave no value for it; a
\* keyword argument the caller gave is passed on as given, and a parameter that
\* is not in the registry is left as it was.
C2_ExplicitArgumentsArePassedOn ==
    last.op = "inject" =>
        \A p \in ParamNames :
            /\ last.given[p] # Missing => last.passed[p] = last.given[p]
            /\ (last.given[p] = Missing /\ p \in last.parameters /\ exists(components, p))
                  => last.passed[p] = components[p]
            /\ ~(p \in last.parameters /\ exists(components, p))
                  => last.passed[p] = last.given[p]

\* C3: when an initializer raises during register_module or register_package,
\* the call is over with no later declaration met and no initializer awaited,
\* and no name that the call added to the registry can be read back.
C3_FailedStartupCommitsNothing ==
    (last.op \in {"_register", "resume"} /\ last.raised = "Exception") =>
        /\ bulk[last.call].status = "aborted"
        /\ bulk[last.call].idx = bulk[last.call].failedAt
        /\ Pending(last.call) = {}
        /\ \A n \in bulk[last.call].fresh : ~exists(components, n)

\* C4: a validation leaves the schema as it was, and a validation that follows
\* another one of the same document through the same adapter ends as that one
\* did: the same exception or errors, the same validated document.
C4_ValidationIsIdempotent ==
    [][last'.op = "validate" =>
          /\ schema' = schema
          /\ (/\ last.op = "validate"
              /\ last'.adapter = last.adapter
              /\ last'.request = last.request
              /\ last'.data = last.data
              /\ last'.order = last.order
              /\ last'.declares = last.declares)
             => /\ last'.outcome = last.outcome
                /\ last'.errors = last.errors
                /\ last'.passed = last.passed]_vars

\* C5: every name that was registered exists, and get_component returns the
\* object most recently registered under it; get_component and exists leave the
\* registry as it was.
C5_LastRegistrationWins ==
    /\ [](\A n \in Names :
            lastRegistered[n] # Missing =>
                /\ exists(components, n)
                /\ get_component(components, n) =
                      [ok |-> TRUE, value |-> lastRegistered[n], error |-> None])
    /\ []((last.op = "get_component" /\ lastRegistered[last.name] # Missing) =>
            (last.outcome.ok /\ last.outcome.value = lastRegistered[last.name]))
    /\ []((last.op = "exists" /\ lastRegistered[last.name] # Missing) => last.outcome)
    /\ [][last'.op \in {"get_component", "exists"} => components' = components]_vars

\* A name that held an object was registered again with another object, which
\* is the one read back.
C5_Witness ==
    /\ last.op = "register"
    /\ last.previous \in Instances
    /\ last.previous # last.object
    /\ get_component(components, last.name).value = last.object

\* C6: for a name that was never registered, get_component raises KeyError (and
\* it raises nothing else, and only for such a name), exists answers false, and
\* neither changes the registry.
C6_UnregisteredNameIsMissing ==
    /\ [](\A n \in Names :
            lastRegistered[n] = Missing =>
                /\ ~exists(components, n)
                /\ get_component(components, n) =
                      [ok |-> FALSE, value |-> None, error |-> "KeyError"])
    /\ [](last.op = "get_component" =>
            /\ last.outcome.ok <=> lastRegistered[last.name] # Missing
            /\ ~last.outcome.ok => last.outcome.error = "KeyError")
    /\ [](last.op = "exists" =>
            /\ last.outcome \in BOOLEAN
            /\ lastRegistered[last.name] = Missing => ~last.outcome)
    /\ [][last'.op \in {"get_component", "exists"} => components' = components]_vars

\* get_component of a name never registered, in a registry that holds another.
C6_Witness ==
    /\ last.op = "get_component"
    /\ lastRegistered[last.name] = Missing
    /\ last.outcome.error = "KeyError"
    /\ \E n \in Names : lastRegistered[n] # Missing

\* C7: when a field is under the existence check of the documented form (the
\* collection named directly), the request carries the field and a checker is
\* registered as document_exists, then a value the checker does not find ends
\* the request with the error map that marks that field with the configured
\* message and no other field, and a value it finds leaves the field without
\* error.  (Stated for schemas that put no rule on the other field.)
C7_ExistenceCheckMarksTheField ==
    (/\ last.op = "validate"
     /\ schema.rules["id"] = <<CheckExistence("profiles", FALSE)>>
     /\ schema.rules["kind"] = <<>>
     /\ last.request.present
     /\ last.data["id"] # Missing
     /\ components["document_exists"] \in {"checker", "async_checker"})
    => LET metadata == CollectionMap["profiles"]
       IN IF ~DocumentExists(metadata.name, last.data["id"])
          THEN /\ last.outcome.kind = "InvalidUsage"
               /\ last.outcome.errors =
                    [g \in Fields |-> IF g = "id" THEN <<metadata.not_found>> ELSE <<>>]
          ELSE /\ last.outcome.kind = "handled"
               /\ last.errors["id"] = <<>>

\* C8: when a field is under allowed_path alone (the other field under no rule)
\* and the document carries it, a value that is not in the allow-list (a str
\* standing for the list of that one str) ends the request with NotFound, which
\* carries the request's path when there is a request and no path otherwise,
\* no error is recorded for the field and the handler is not called; a value
\* that is in the list ends the request with no exception and no error.
C8_AllowedPathEndsTheRequest ==
    (/\ last.op = "validate"
     /\ (last.adapter = "ValidatePath" \/ last.request.present)
     /\ Len(schema.rules["kind"]) = 1
     /\ schema.rules["kind"][1].rule = "allowed_path"
     /\ schema.rules["id"] = <<>>
     /\ last.data["kind"] # Missing)
    => LET rule == schema.rules["kind"][1]
           allowed == IF rule.isStr THEN {rule.items[1]}
                      ELSE {rule.items[n] : n \in 1..Len(rule.items)}
       IN IF last.data["kind"] \notin allowed
          THEN /\ last.outcome.kind = "NotFound"
               /\ last.outcome.detail =
                     IF last.request.present THEN last.request.path ELSE None
               /\ last.errors["kind"] = <<>>
               /\ ~last.outcome.handler
          ELSE /\ last.outcome.kind = "handled"
               /\ last.errors["kind"] = <<>>

\* The general rule of C9: one key per lower-cased field name, whose direction
\* is that of the first field with that lower-cased name, 1 if that field is
\* upper case and -1 otherwise.
FirstOccurrenceDecides(fields, output) ==
    LET First(k) == CHOOSE n \in 1..Len(fields) :
                        /\ Lower(fields[n]) = k
                        /\ \A m \in 1..(n - 1) : Lower(fields[m]) # k
    IN /\ DOMAIN output = {Lower(fields[n]) : n \in 1..Len(fields)}
       /\ \A k \in DOMAIN output :
             output[k] = IF IsUpper(fields[First(k)]) THEN 1 ELSE -1

\* {"name": d, "age": -1}
ExampleOutput(d) ==
    DictSet(DictSet(<<>>, <<"n", "a", "m", "e">>, d), <<"a", "g", "e">>, -1)

\* C9 as stated: the output of create_sort_query follows the rule that the first
\* occurrence decides, and ["Name", "age", "NAME"] gives {"name": 1, "age": -1}.
C9_SortQueryAsStated ==
    last.op = "create_sort_query" =>
        /\ FirstOccurrenceDecides(last.fields, last.output)
        /\ last.fields = Example => last.output = ExampleOutput(1)

\* C9 amended: the output of create_sort_query follows the rule that the first
\* occurrence decides, and ["Name", "age", "NAME"] gives {"name": -1, "age": -1},
\* "Name", the first occurrence, not being upper case.
C9_SortQueryKeepsFirstOccurrence ==
    last.op = "create_sort_query" =>
        /\ FirstOccurrenceDecides(last.fields, last.output)
        /\ last.fields = Example => last.output = ExampleOutput(-1)

\* create_sort_query was called on ["Name", "age", "NAME"].
C9_Witness ==
    /\ last.op = "create_sort_query"
    /\ last.fields = Example

\* C10: within one register_module or register_package call at most one
\* initializer is in flight, it is the one of the declaration met last, every
\* declaration met before it has had its result written, and the writes are in
\* the order the declarations were met.
C10_StartupIsSequential ==
    \A c \in CallIds :
        /\ Cardinality(Pending(c)) <= 1
        /\ \A t \in Pending(c) :
              t.idx = bulk[c].idx /\ Len(bulk[c].written) = t.idx - 1
        /\ \A n \in 1..Len(bulk[c].written) : bulk[c].written[n] = n
        /\ (bulk[c].status \in {"running", "done"} /\ Pending(c) = {}) =>
              Len(bulk[c].written) = bulk[c].idx

\* The second declaration's coroutine of a call is in flight and its first
\* declaration's result is written and readable.
C10_Witness ==
    \E t \in inflight :
        /\ t.idx = 2
        /\ bulk[t.call].written = <<1>>
        /\ \E n \in bulk[t.call].fresh : exists(components, n)

=============================================================================
